---- MODULE Spec2Model ----
(***************************************************************************)
(* A model of the passcheck crate (src/src/lib.rs): the Rule enum, the     *)
(* PasswordChecker builder and PasswordChecker::validate.                  *)
(*                                                                         *)
(* A password is a sequence of Unicode scalar values (what str::chars()    *)
(* yields); its str::len() is the number of bytes of its UTF-8 encoding.   *)
(* An Option<&str> is <<>> for None and <<s>> for Some(s).  A message is   *)
(* a string.                                                               *)
(***************************************************************************)
EXTENDS Integers, Sequences, FiniteSets, TLC

VARIABLES
    rules,      \* PasswordChecker.rules: the Vec<Rule> of the checker
    called,     \* the name of the most recent call on the checker
    password,   \* the argument of the most recent validate call
    result,     \* the value the most recent call returned
    pushed,     \* per rule, the messages its loop iteration pushed (last validate)
    calls,      \* history: the configuration calls made since new(), in order
    memo        \* history: an earlier validate call on the unchanged checker

vars == <<rules, called, password, result, pushed, calls, memo>>

-----------------------------------------------------------------------------
(* Bounds and input sets *)

MaxRules == 2
MaxInputRules == 1
MaxProbeRules == 1
MaxShortLen == 1
MaxPwLen == 2

\* 'A', 'a', '0', '@', and the two-byte U+00E9
Alphabet == {65, 97, 48, 64, 233}

\* 'A' and '0'
MemoAlphabet == {65, 48}

\* every printable ASCII character, and U+00E9
ProbeChars == (32..126) \cup {233}

\* thresholds passed to min_length; 10 is the threshold of tests::password_too_short
Thresholds == {0, 2, 3, 10}

CustomMsgs == {"custom text"}

None == <<>>
Some(s) == <<s>>

Msgs == {None} \cup {Some(s) : s \in CustomMsgs}

SeqsUpTo(S, n) == UNION {[1..k -> S] : k \in 0..n}

Passwords == SeqsUpTo(Alphabet, MaxPwLen)

ShortPasswords == SeqsUpTo(Alphabet, MaxShortLen)

MemoPasswords == SeqsUpTo(MemoAlphabet, MaxShortLen)

\* each probed character alone, last, first, and between 'a' and '0'
Probes ==
    {<<>>} \cup {<<c>> : c \in ProbeChars} \cup {<<97, c>> : c \in ProbeChars}
           \cup {<<c, 48>> : c \in ProbeChars} \cup {<<97, c, 48>> : c \in ProbeChars}

-----------------------------------------------------------------------------
(* enum Rule *)

MinLength(len, msg) == [kind |-> "MinLength", len |-> len, msg |-> msg]
RequireUpperLower(msg) == [kind |-> "RequireUpperLower", msg |-> msg]
RequireNumber(msg) == [kind |-> "RequireNumber", msg |-> msg]
RequireSpecialChar(msg) == [kind |-> "RequireSpecialChar", msg |-> msg]

-----------------------------------------------------------------------------
(* The builder *)

new == <<>>

min_length_front(self, len, msg) == <<MinLength(len, msg)>> \o self
min_length(self, len, msg) == Append(self, MinLength(len, msg))

require_upper_lower(self, msg) == Append(self, RequireUpperLower(msg))

require_number(self, msg) == Append(self, RequireNumber(msg))

require_special_char(self, msg) == Append(self, RequireSpecialChar(msg))

-----------------------------------------------------------------------------
(* Library functions validate uses *)

\* the number of bytes UTF-8 encodes the scalar value c in
len_utf8(c) ==
    IF c < 128 THEN 1 ELSE IF c < 2048 THEN 2 ELSE IF c < 65536 THEN 3 ELSE 4

RECURSIVE str_len(_)
str_len(s) == IF s = <<>> THEN 0 ELSE len_utf8(Head(s)) + str_len(Tail(s))

is_ascii_uppercase(c) == c >= 65 /\ c <= 90
is_ascii_lowercase(c) == c >= 97 /\ c <= 122
is_ascii_digit(c) == c >= 48 /\ c <= 57

\* str::chars(): the scalar values of s
chars(s) == {s[i] : i \in 1..Len(s)}

unwrap_or_default(opt, default) == default
unwrap_or(opt, default) == IF opt = None THEN default ELSE opt[1]

DigitChar(d) == SubSeq("0123456789", d + 1, d + 1)

\* format!("{}", n) of a usize
RECURSIVE fmt_usize(_)
fmt_usize(n) ==
    IF n < 10 THEN DigitChar(n) ELSE fmt_usize(n \div 10) \o DigitChar(n % 10)

-----------------------------------------------------------------------------
(* PasswordChecker::validate *)

\* const SPECIAL_CHARS: [char; 30], as scalar values, in the order of the source
SPECIAL_CHARS ==
    << 33, 64, 35, 36, 37, 94, 38, 42, 40, 41,
       45, 95, 61, 43, 91, 93, 123, 125, 92, 124,
       59, 58, 39, 34, 44, 46, 60, 62, 47, 63 >>

is_ascii_punctuation(c) ==
    \/ c >= 33 /\ c <= 47
    \/ c >= 58 /\ c <= 64
    \/ c >= 91 /\ c <= 96
    \/ c >= 123 /\ c <= 126
\* SPECIAL_CHARS.contains(&c)
is_special_char(c) == \E i \in 1..Len(SPECIAL_CHARS) : SPECIAL_CHARS[i] = c

Ok == [tag |-> "Ok"]
Err(errors) == [tag |-> "Err", errors |-> errors]

min_length_fails_le(pw, len) == str_len(pw) <= len
\* password.len() < *len
min_length_fails(pw, len) == str_len(pw) < len

min_length_default_fixed(len) == "Password must be at least 8 characters long."
\* format!("Password must be at least {} characters long.", len)
min_length_default(len) ==
    "Password must be at least " \o fmt_usize(len) \o " characters long."

upper_lower_fails_both(pw) ==
    /\ ~\E c \in chars(pw) : is_ascii_uppercase(c)
    /\ ~\E c \in chars(pw) : is_ascii_lowercase(c)
\* !any(is_ascii_uppercase) || !any(is_ascii_lowercase)
upper_lower_fails(pw) ==
    \/ ~\E c \in chars(pw) : is_ascii_uppercase(c)
    \/ ~\E c \in chars(pw) : is_ascii_lowercase(c)

\* !password.chars().any(|c| c.is_ascii_digit())
number_fails(pw) == ~\E c \in chars(pw) : is_ascii_digit(c)

\* !password.chars().any(|c| SPECIAL_CHARS.contains(&c))
special_char_fails(pw) == ~\E c \in chars(pw) : is_special_char(c)

\* one arm of the match: the messages this rule pushes for pw (none or one)
rule_arm(rule, pw) ==
    CASE rule.kind = "MinLength" ->
           IF min_length_fails(pw, rule.len)
           THEN <<unwrap_or(rule.msg, min_length_default(rule.len))>>
           ELSE <<>>
      [] rule.kind = "RequireUpperLower" ->
           IF upper_lower_fails(pw)
           THEN <<unwrap_or(rule.msg,
                    "Password must include both uppercase and lowercase letters.")>>
           ELSE <<>>
      [] rule.kind = "RequireNumber" ->
           IF number_fails(pw)
           THEN <<unwrap_or(rule.msg, "Password must include at least one number.")>>
           ELSE <<>>
      [] rule.kind = "RequireSpecialChar" ->
           IF special_char_fails(pw)
           THEN <<unwrap_or(rule.msg,
                    "Password must include at least one special character.")>>
           ELSE <<>>

push_front(errors, msg) == <<msg>> \o errors
\* errors.push(msg.to_string())
push(errors, msg) == Append(errors, msg)

\* the loop leaving at the first rule that fails
RECURSIVE validate_loop_short(_, _, _, _)
validate_loop_short(rs, pw, i, acc) ==
    IF i > Len(rs) THEN acc
    ELSE LET msgs == IF acc.errors = <<>> THEN rule_arm(rs[i], pw) ELSE <<>>
         IN  validate_loop_short(rs, pw, i + 1,
                 [errors |-> IF msgs = <<>> THEN acc.errors
                             ELSE push(acc.errors, msgs[1]),
                  pushed |-> Append(acc.pushed, msgs)])

\* for rule in &self.rules { match rule { ... } }, from rule i on;
\* acc.errors is the Vec errors, acc.pushed records what each iteration pushed
RECURSIVE validate_loop(_, _, _, _)
validate_loop(rs, pw, i, acc) ==
    IF i > Len(rs) THEN acc
    ELSE LET msgs == rule_arm(rs[i], pw)
         IN  validate_loop(rs, pw, i + 1,
                 [errors |-> IF msgs = <<>> THEN acc.errors
                             ELSE push(acc.errors, msgs[1]),
                  pushed |-> Append(acc.pushed, msgs)])

validate_return_err(errors) == Err(errors)
\* if errors.is_empty() { Ok(()) } else { Err(errors) }
validate_return(errors) == IF errors = <<>> THEN Ok ELSE Err(errors)

validate(self, pw) ==
    LET out == validate_loop(self, pw, 1, [errors |-> <<>>, pushed |-> <<>>])
    IN  [ret |-> validate_return(out.errors), pushed |-> out.pushed]

-----------------------------------------------------------------------------
(* The calls a program makes on a checker *)

Checker == [tag |-> "Checker"]
NoMemo == [tag |-> "None"]

\* what a builder call leaves behind, given the new rules and the call made
Configured(rs, name, call) ==
    /\ rules' = rs
    /\ called' = name
    /\ password' = <<>>
    /\ result' = Checker
    /\ pushed' = <<>>
    /\ calls' = Append(calls, call)
    /\ memo' = NoMemo

CallNew ==
    /\ rules' = new
    /\ called' = "new"
    /\ password' = <<>>
    /\ result' = Checker
    /\ pushed' = <<>>
    /\ calls' = <<>>
    /\ memo' = NoMemo

CallMinLength(len, msg) ==
    Configured(min_length(rules, len, msg), "min_length",
               [op |-> "min_length", len |-> len, msg |-> msg])

CallRequireUpperLower(msg) ==
    Configured(require_upper_lower(rules, msg), "require_upper_lower",
               [op |-> "require_upper_lower", msg |-> msg])

CallRequireNumber(msg) ==
    Configured(require_number(rules, msg), "require_number",
               [op |-> "require_number", msg |-> msg])

CallRequireSpecialChar(msg) ==
    Configured(require_special_char(rules, msg), "require_special_char",
               [op |-> "require_special_char", msg |-> msg])

\* a validate that consumes the rules it found violated
CallValidateDraining(pw) ==
    LET out == validate(rules, pw)
    IN  /\ rules' = SelectSeq(rules, LAMBDA r : rule_arm(r, pw) = <<>>)
        /\ called' = "validate"
        /\ password' = pw
        /\ result' = out.ret
        /\ pushed' = out.pushed
        /\ UNCHANGED calls

\* checker.validate(pw): &self, so the rules stay as they are
CallValidate(pw) ==
    LET out == validate(rules, pw)
    IN  /\ called' = "validate"
        /\ password' = pw
        /\ result' = out.ret
        /\ pushed' = out.pushed
        /\ UNCHANGED <<rules, calls>>

\* the caller keeps this call's checker, argument and result for a later comparison
Remember ==
    memo' = [tag |-> "Some", rules |-> rules, password |-> password',
             result |-> result', between |-> FALSE]

\* the caller keeps what it kept, and notes a call with another argument
Observe ==
    memo' = IF memo.tag = "Some" /\ password' # memo.password
            THEN [memo EXCEPT !.between = TRUE]
            ELSE memo

Init ==
    /\ rules = new
    /\ called = "new"
    /\ password = <<>>
    /\ result = Checker
    /\ pushed = <<>>
    /\ calls = <<>>
    /\ memo = NoMemo

\* the many-rules specification: up to MaxRules rules, short passwords
Next ==
    \/ CallNew
    \/ \E len \in Thresholds, msg \in Msgs :
          Len(rules) < MaxRules /\ CallMinLength(len, msg)
    \/ \E msg \in Msgs : Len(rules) < MaxRules /\ CallRequireUpperLower(msg)
    \/ \E msg \in Msgs : Len(rules) < MaxRules /\ CallRequireNumber(msg)
    \/ \E msg \in Msgs : Len(rules) < MaxRules /\ CallRequireSpecialChar(msg)
    \/ \E pw \in ShortPasswords : CallValidate(pw) /\ UNCHANGED memo

Spec == Init /\ [][Next]_vars

\* the inputs specification: few rules, every password up to MaxPwLen
NextInputs ==
    \/ CallNew
    \/ \E len \in Thresholds, msg \in Msgs :
          Len(rules) < MaxInputRules /\ CallMinLength(len, msg)
    \/ \E msg \in Msgs : Len(rules) < MaxInputRules /\ CallRequireUpperLower(msg)
    \/ \E msg \in Msgs : Len(rules) < MaxInputRules /\ CallRequireNumber(msg)
    \/ \E msg \in Msgs : Len(rules) < MaxInputRules /\ CallRequireSpecialChar(msg)
    \/ \E pw \in Passwords : CallValidate(pw) /\ UNCHANGED memo

SpecInputs == Init /\ [][NextInputs]_vars

\* the repeated-validation specification: the caller may keep a call for later
NextMemo ==
    \/ CallNew
    \/ \E len \in Thresholds, msg \in Msgs :
          Len(rules) < MaxRules /\ CallMinLength(len, msg)
    \/ \E msg \in Msgs : Len(rules) < MaxRules /\ CallRequireUpperLower(msg)
    \/ \E msg \in Msgs : Len(rules) < MaxRules /\ CallRequireNumber(msg)
    \/ \E msg \in Msgs : Len(rules) < MaxRules /\ CallRequireSpecialChar(msg)
    \/ \E pw \in MemoPasswords : CallValidate(pw) /\ Observe
    \/ \E pw \in MemoPasswords : CallValidate(pw) /\ Remember

SpecMemo == Init /\ [][NextMemo]_vars

\* the special-character specification: every printable character is probed
NextProbe ==
    \/ CallNew
    \/ \E msg \in Msgs : Len(rules) < MaxProbeRules /\ CallRequireSpecialChar(msg)
    \/ \E pw \in Probes : CallValidate(pw) /\ UNCHANGED memo

SpecProbe == Init /\ [][NextProbe]_vars

-----------------------------------------------------------------------------
(* What the specification says of a rule and an input, stated on its own terms *)

Validated == called = "validate"

Errors == IF result.tag = "Err" THEN result.errors ELSE <<>>

Range(f) == {f[i] : i \in DOMAIN f}

\* the raw length of the input: one per character, one more per further byte
InputLength(pw) ==
    Len(pw) + Cardinality({i \in 1..Len(pw) : pw[i] >= 128})
            + Cardinality({i \in 1..Len(pw) : pw[i] >= 2048})
            + Cardinality({i \in 1..Len(pw) : pw[i] >= 65536})

\* ! " # $ % & ' ( ) * + , - . /   : ; < = > ? @   [ \ ] ^ _   { | }
SpecialSet == (33..47) \cup (58..64) \cup (91..95) \cup (123..125)

HasUpper(pw) == \E i \in 1..Len(pw) : pw[i] \in 65..90
HasLower(pw) == \E i \in 1..Len(pw) : pw[i] \in 97..122
HasDigit(pw) == \E i \in 1..Len(pw) : pw[i] \in 48..57
HasSpecial(pw) == \E i \in 1..Len(pw) : pw[i] \in SpecialSet

Violates(rule, pw) ==
    CASE rule.kind = "MinLength" -> InputLength(pw) < rule.len
      [] rule.kind = "RequireUpperLower" -> ~HasUpper(pw) \/ ~HasLower(pw)
      [] rule.kind = "RequireNumber" -> ~HasDigit(pw)
      [] rule.kind = "RequireSpecialChar" -> ~HasSpecial(pw)

DefaultText(rule) ==
    CASE rule.kind = "MinLength" ->
           "Password must be at least " \o ToString(rule.len) \o " characters long."
      [] rule.kind = "RequireUpperLower" ->
           "Password must include both uppercase and lowercase letters."
      [] rule.kind = "RequireNumber" -> "Password must include at least one number."
      [] rule.kind = "RequireSpecialChar" ->
           "Password must include at least one special character."

Resolved(rule) == IF rule.msg = None THEN DefaultText(rule) ELSE rule.msg[1]

\* the indices of the rules pw violates, in increasing order
ViolatedIdx(rs, pw) ==
    SelectSeq([i \in 1..Len(rs) |-> i], LAMBDA i : Violates(rs[i], pw))

Contains(s, sub) ==
    \E i \in 1..(Len(s) - Len(sub) + 1) : SubSeq(s, i, i + Len(sub) - 1) = sub

RuleOfCall(call) ==
    CASE call.op = "min_length" -> MinLength(call.len, call.msg)
      [] call.op = "require_upper_lower" -> RequireUpperLower(call.msg)
      [] call.op = "require_number" -> RequireNumber(call.msg)
      [] call.op = "require_special_char" -> RequireSpecialChar(call.msg)

ConfigNames ==
    {"min_length", "require_upper_lower", "require_number", "require_special_char"}

-----------------------------------------------------------------------------
(* The claims *)

\* C1: after validate, every rule entry was evaluated, a violated entry pushed
\* exactly one message and any other entry none, and the number of messages
\* returned is the number of rule entries the input violates.
C1_MessageCount ==
    Validated =>
        /\ Len(pushed) = Len(rules)
        /\ \A i \in 1..Len(rules) :
             Len(pushed[i]) = IF Violates(rules[i], password) THEN 1 ELSE 0
        /\ Len(Errors) =
             Cardinality({i \in 1..Len(rules) : Violates(rules[i], password)})

\* the same kind of rule twice, both entries violated, two messages returned
C1_Witness ==
    /\ Validated
    /\ Len(rules) = 2
    /\ rules[1].kind = rules[2].kind
    /\ Violates(rules[1], password) /\ Violates(rules[2], password)
    /\ result.tag = "Err" /\ Len(result.errors) = 2

\* C2: the i-th message returned is the resolved message of the i-th violated
\* rule in insertion order.
C2_MessageOrder ==
    Validated =>
        LET idx == ViolatedIdx(rules, password)
        IN  /\ Len(Errors) = Len(idx)
            /\ \A k \in 1..Len(idx) : Errors[k] = Resolved(rules[idx[k]])

\* two violated rules whose messages differ, returned in the order of the rules
C2_Witness ==
    /\ Validated
    /\ Len(rules) = 2
    /\ Violates(rules[1], password) /\ Violates(rules[2], password)
    /\ Resolved(rules[1]) # Resolved(rules[2])
    /\ result.tag = "Err"
    /\ result.errors = <<Resolved(rules[1]), Resolved(rules[2])>>

\* C3: validate returns Ok exactly when the input violates no configured rule,
\* and otherwise Err with a list that is not empty; with no rule it returns Ok.
C3_OkIffNoViolation ==
    Validated =>
        /\ result.tag \in {"Ok", "Err"}
        /\ result = Ok <=> \A i \in 1..Len(rules) : ~Violates(rules[i], password)
        /\ result.tag = "Err" => result.errors # <<>>
        /\ rules = <<>> => result = Ok

\* a checker of two rules returns Ok
C3_Witness ==
    /\ Validated
    /\ Len(rules) = 2
    /\ result = Ok

\* C4: a violated rule with a custom message adds exactly that text and not its
\* default message; a violated rule without one adds its default message.
C4_CustomOrDefault ==
    Validated =>
        \A i \in 1..Len(rules) :
            Violates(rules[i], password) =>
                /\ result.tag = "Err"
                /\ IF rules[i].msg # None
                   THEN /\ pushed[i] = <<rules[i].msg[1]>>
                        /\ rules[i].msg[1] \in Range(result.errors)
                        /\ DefaultText(rules[i]) \notin Range(pushed[i])
                   ELSE /\ pushed[i] = <<DefaultText(rules[i])>>
                        /\ DefaultText(rules[i]) \in Range(result.errors)

\* a violated rule with a custom message beside a violated rule without one
C4_Witness ==
    /\ Validated
    /\ Len(rules) = 2
    /\ rules[1].msg # None /\ rules[2].msg = None
    /\ Violates(rules[1], password) /\ Violates(rules[2], password)
    /\ result.tag = "Err"
    /\ result.errors = <<rules[1].msg[1], DefaultText(rules[2])>>

\* C5: a MinLength(N) entry yields a message exactly when the input's length is
\* below N; length N passes and MinLength(0) is satisfied by every input.
C5_MinLength ==
    Validated =>
        \A i \in 1..Len(rules) :
            rules[i].kind = "MinLength" =>
                /\ InputLength(password) < rules[i].len => Len(pushed[i]) = 1
                /\ InputLength(password) >= rules[i].len => pushed[i] = <<>>
                /\ rules[i].len = 0 => pushed[i] = <<>>
                /\ Len(rules) = 1 =>
                     (result = Ok <=> InputLength(password) >= rules[i].len)

\* an input whose length is exactly a positive threshold passes
C5_Witness ==
    /\ Validated
    /\ Len(rules) = 1
    /\ rules[1].kind = "MinLength"
    /\ rules[1].len > 0
    /\ InputLength(password) = rules[1].len
    /\ result = Ok

\* C6: after k configuration calls since new() the checker holds exactly the k
\* rules of those calls, in call order, and every configuration call returned
\* the checker.
C6_AppendOnly ==
    /\ Len(rules) = Len(calls)
    /\ \A i \in 1..Len(calls) : rules[i] = RuleOfCall(calls[i])
    /\ called \in ConfigNames => result = Checker

\* two configuration calls of different rules, the min_length call second
C6_Witness ==
    /\ Len(calls) = 2
    /\ calls[1].op = "require_number"
    /\ calls[2].op = "min_length"
    /\ rules = <<RuleOfCall(calls[1]), RuleOfCall(calls[2])>>
    /\ called = "min_length"

\* C7: while no configuration call is made, validate leaves the rules as they
\* were, and a validate call with the input of an earlier one returns what the
\* earlier one returned, whatever was validated in between.
C7_Idempotent ==
    memo.tag = "Some" =>
        /\ rules = memo.rules
        /\ Validated /\ password = memo.password => result = memo.result

\* the kept input is validated again after another input was, and fails again
C7_Witness ==
    /\ memo.tag = "Some"
    /\ memo.between
    /\ Validated
    /\ password = memo.password
    /\ result.tag = "Err"
    /\ result = memo.result

C9_UpperLower ==
    Validated =>
        \A i \in 1..Len(rules) :
            rules[i].kind = "RequireUpperLower" =>
                /\ HasUpper(password) /\ HasLower(password) => pushed[i] = <<>>
                /\ ~HasUpper(password) \/ ~HasLower(password) => Len(pushed[i]) = 1
                /\ ~HasUpper(password) /\ ~HasLower(password) => Len(pushed[i]) = 1

\* an input of two characters with no letter at all yields exactly one message
C9_Witness ==
    /\ Validated
    /\ rules = <<RequireUpperLower(None)>>
    /\ Len(password) = 2
    /\ ~HasUpper(password) /\ ~HasLower(password)
    /\ result.tag = "Err" /\ Len(result.errors) = 1

\* C10: a RequireSpecialChar entry yields a message exactly when no character
\* of the input is one of the 30 characters of the special-character set.
C10_SpecialChar ==
    Validated =>
        \A i \in 1..Len(rules) :
            rules[i].kind = "RequireSpecialChar" =>
                /\ HasSpecial(password) => pushed[i] = <<>>
                /\ ~HasSpecial(password) => Len(pushed[i]) = 1
                /\ Len(rules) = 1 => (result = Ok <=> HasSpecial(password))

\* '~' alone between a letter and a digit does not satisfy the rule
C10_Witness ==
    /\ Validated
    /\ Len(rules) = 1
    /\ password = <<97, 126, 48>>
    /\ result.tag = "Err" /\ Len(result.errors) = 1

====
